---- MODULE Spec2Model ----
(***************************************************************************)
(* Model of the anti-counterfeit backend                                   *)
(*   src/anti-counterfeit-backend/index.js  (JWT + PostgreSQL server)      *)
(*   src/unnamed/part_003                   (canonical-JSON signing server)*)
(*   src/unnamed/part_004                   (token-hash scan tracker)      *)
(* Time is counted in hours.  Every `await pool.query(...)` is one step of *)
(* a request handler, so that handlers of concurrent requests interleave   *)
(* exactly at the awaits, and may either succeed or throw.                 *)
(***************************************************************************)
EXTENDS Integers, Sequences, FiniteSets, TLC

\* ------------------------------------------------------------------------
\* Bounds of the exploration
\* ------------------------------------------------------------------------
MaxLedger == 2       \* rows of table verifications in a run of Spec
MaxAudit == 2        \* rows of table audit_log in a run of Spec
MaxIssued == 1       \* distinct tokens issued by /sign-qr in a run of Spec
MaxFaults == 1       \* pool.query calls that throw in a run
MaxTicks == 1        \* clock ticks in a run of Spec
MaxScans == 16       \* rows of table verifications in a run of SpecSeq
MaxSeqTicks == 2     \* clock ticks in a run of SpecSeq
MaxEdits == 1        \* changes made to a signed payload in a run of SpecCanon
MaxLifeAudit == 3    \* rows of table audit_log in a run of SpecLife
MaxLifeIssued == 2   \* distinct tokens issued in a run of SpecLife
MaxLifeLedger == 2   \* rows of table verifications in a run of SpecLife

\* ------------------------------------------------------------------------
\* Program constants
\* ------------------------------------------------------------------------
TenYears == 87600    \* expiresIn: "10y", in hours
WindowHours == 24    \* INTERVAL '24 hours'
TickHours == WindowHours \div 2

Clients == {"c1", "c2"}
Products == {"SKU-42"}            \* ids that /sign-qr is asked to sign
ProductIds == {"SKU-42", "SKU-7"}   \* ids that occur in tokens and in :id
Names == {"Widget"}

\* ------------------------------------------------------------------------
\* jsonwebtoken: RS256 signatures, modelled as perfect cryptography.  A
\* signature remembers the key that made it and the claims it was made over.
\* ------------------------------------------------------------------------
PublicOf == [k \in {"priv-A", "priv-B", "priv-G", "priv-L"} |->
                CASE k = "priv-A" -> "pub-A" [] k = "priv-B" -> "pub-B"
                  [] k = "priv-G" -> "pub-G" [] k = "priv-L" -> "pub-L"]
NoKey == "unset"
NoToken == [none |-> TRUE]

Claims(t) == [data |-> t.data, iat |-> t.iat, hasExp |-> t.hasExp, exp |-> t.exp]

\* jwt.sign({ data: payload }, key, { algorithm: "RS256", expiresIn })
jwtSign(payload, key, iat, withExp, expiresIn) ==
    LET c == [data |-> payload, iat |-> iat, hasExp |-> withExp,
              exp |-> IF withExp THEN iat + expiresIn ELSE 0]
    IN  [data |-> c.data, iat |-> c.iat, hasExp |-> c.hasExp, exp |-> c.exp,
         alg |-> "RS256", sig |-> [key |-> key, over |-> c]]

\* the exp claim of a token lies in the past
Expired(token, clock) == token.hasExp /\ clock >= token.exp

\* jwtVerify with a maxAge option that accepts tokens of the current hour only
jwtVerify_MaxAge(token, publicKey, clock) ==
    IF token.alg # "RS256" THEN "invalid algorithm"
    ELSE IF ~(token.sig.key \in DOMAIN PublicOf
              /\ PublicOf[token.sig.key] = publicKey
              /\ token.sig.over = Claims(token)) THEN "invalid signature"
    ELSE IF Expired(token, clock) THEN "jwt expired"
    ELSE IF token.iat < clock THEN "maxAge exceeded"
    ELSE "ok"

\* jwtVerify with the exp claim ignored
jwtVerify_NoExpiry(token, publicKey, clock) ==
    IF token.alg # "RS256" THEN "invalid algorithm"
    ELSE IF ~(token.sig.key \in DOMAIN PublicOf
              /\ PublicOf[token.sig.key] = publicKey
              /\ token.sig.over = Claims(token)) THEN "invalid signature"
    ELSE "ok"

\* jwt.verify(signedToken, PUBLIC_KEY, { algorithms: ["RS256"] }):
\* "ok" when it returns the decoded claims, else the message of the error
jwtVerify(token, publicKey, clock) ==
    IF token.alg # "RS256" THEN "invalid algorithm"
    ELSE IF ~(token.sig.key \in DOMAIN PublicOf
              /\ PublicOf[token.sig.key] = publicKey
              /\ token.sig.over = Claims(token)) THEN "invalid signature"
    ELSE IF Expired(token, clock) THEN "jwt expired"
    ELSE "ok"

\* request bodies of /sign-qr : id "" stands for a body without an id
Payloads == {[id |-> p, name |-> n] : p \in Products \cup {""}, n \in Names}

\* tokens that exist before the run starts: one issued by /sign-qr ten years
\* ago (expired from hour 0 on), one issued by generate-qr.mjs without expiry
OldToken ==
    jwtSign([id |-> "SKU-42", name |-> "Widget"], "priv-A", 0 - TenYears, TRUE, TenYears)
PlainToken ==
    jwtSign([id |-> "SKU-42", name |-> "Widget"], "priv-A", 0, FALSE, 0)
PriorTokens == {OldToken, PlainToken}

\* what a counterfeiter makes of them: the claims signed with an own key, the
\* payload changed under the old signature, the expiry pushed under the old
\* signature
ForgedTokens ==
    { [PlainToken EXCEPT !.sig = [key |-> "priv-B", over |-> Claims(PlainToken)]],
      [PlainToken EXCEPT !.data = [id |-> "SKU-7", name |-> "Widget"]],
      [OldToken EXCEPT !.exp = OldToken.exp + TenYears] }

\* ------------------------------------------------------------------------
\* State
\* ------------------------------------------------------------------------
VARIABLES
    now,            \* NOW() of the database and Date.now(), in hours
    PRIVATE_KEY,    \* process.env.PRIVATE_KEY
    PUBLIC_KEY,     \* process.env.PUBLIC_KEY
    products,       \* table products: product_id -> row
    verifications,  \* table verifications, in insertion order
    audit_log,      \* table audit_log, in insertion order
    proc,           \* per client: the handler's position and locals
    resp,           \* per client: the response just sent
    issued,         \* tokens returned by /sign-qr so far
    faults,         \* pool.query calls that have thrown
    revoked,        \* per product: result of the last undisturbed activate / deactivate
    tally,          \* answers valid:true given, and how many of them left no row
    PRIVATE_PEM,    \* part_003: the signing key
    PUBLIC_PEM,     \* part_003: the verification key
    wire,           \* part_003: signed data on its way from /sign to /verify
    attested,       \* part_003: the payload of the signed data as /sign sent it
    answer,         \* part_003: the last response of /verify
    product_scans   \* part_004: table product_scans, in insertion order

vars == <<now, PRIVATE_KEY, PUBLIC_KEY, products, verifications, audit_log,
          proc, resp, issued, faults, revoked, tally,
          PRIVATE_PEM, PUBLIC_PEM, wire, attested, answer, product_scans>>

canon == <<PRIVATE_PEM, PUBLIC_PEM, wire, attested, answer>>
env == <<PRIVATE_KEY, PUBLIC_KEY, canon, product_scans>>
backend == <<now, PRIVATE_KEY, PUBLIC_KEY, products, verifications, audit_log,
             proc, resp, issued, faults, revoked, tally, product_scans>>

Idle == [pc |-> "idle", op |-> "none"]
EmptyTable == [p \in {} |-> Idle]
NoResp == [status |-> 0]
NoWire == [none |-> TRUE]

\* the canonical signing server, started and not used
CanonUnused ==
    /\ PRIVATE_PEM = "priv-G"
    /\ PUBLIC_PEM = "pub-G"
    /\ wire = NoWire
    /\ attested = NoWire
    /\ answer = NoResp

\* a response is handed to the client before the server does anything else
Quiet == \A c \in Clients : proc[c].pc # "done"
Free(c) == Quiet /\ proc[c].pc = "idle"
At(c, pc) == Quiet /\ proc[c].pc = pc

InFlight(op) == Cardinality({c \in Clients : proc[c].op = op /\ proc[c].pc # "idle"})

\* outcomes of one pool.query call: TRUE it resolves, FALSE it throws
DbOutcomes == IF faults < MaxFaults THEN {TRUE, FALSE} ELSE {TRUE}
Fault(ok) == faults' = IF ok THEN faults ELSE faults + 1

Init ==
    /\ now = 0
    /\ PRIVATE_KEY \in {"priv-A", NoKey}
    /\ PUBLIC_KEY \in {"pub-A", NoKey}
    /\ products = EmptyTable
    /\ verifications = <<>>
    /\ audit_log = <<>>
    /\ proc = [c \in Clients |-> Idle]
    /\ resp = [c \in Clients |-> NoResp]
    /\ issued = {}
    /\ faults = 0
    /\ revoked = [p \in ProductIds |-> "none"]
    /\ tally = [succeeded |-> 0, unlogged |-> 0]
    /\ product_scans = <<>>
    /\ CanonUnused

\* the client takes the response; the handler's frame is gone
Receive(c) ==
    /\ proc[c].pc = "done"
    /\ proc' = [proc EXCEPT ![c] = Idle]
    /\ resp' = [resp EXCEPT ![c] = NoResp]
    /\ UNCHANGED <<now, env, products, verifications, audit_log, issued, faults, revoked, tally>>

\* ------------------------------------------------------------------------
\* Risk Scorer  (index.js 45-61)
\* ------------------------------------------------------------------------
\* verified_at > NOW() - INTERVAL '24 hours'
InWindow(e, clock) == e.verified_at > clock - WindowHours

\* CountSince without the 24-hour condition
CountSince_NoWindow(ledger, productId, clock) ==
    Cardinality({i \in DOMAIN ledger : ledger[i].product_id = productId})

\* SELECT COUNT(*) FROM verifications WHERE product_id = $1 AND verified_at > ...
CountSince(ledger, productId, clock) ==
    Cardinality({i \in DOMAIN ledger :
                    ledger[i].product_id = productId /\ InWindow(ledger[i], clock)})

\* CountAll leaving out the rows of refused scans
CountAll_ValidOnly(ledger, productId) ==
    Cardinality({i \in DOMAIN ledger : ledger[i].product_id = productId /\ ledger[i].is_valid})

\* SELECT COUNT(*) FROM verifications WHERE product_id = $1
CountAll(ledger, productId) ==
    Cardinality({i \in DOMAIN ledger : ledger[i].product_id = productId})

\* Threshold with the labels of the two upper levels exchanged
Threshold_Swapped(count) ==
    IF count > 10 THEN "medium" ELSE IF count > 3 THEN "high" ELSE "low"

\* lines 54-56
Threshold(count) ==
    IF count > 10 THEN "high" ELSE IF count > 3 THEN "medium" ELSE "low"

\* calculateRiskLevel counting one event more, as if the scan being scored
\* were in the ledger already
calculateRiskLevel_Inclusive(ledger, productId, clock, ok) ==
    IF ok THEN Threshold(CountSince(ledger, productId, clock) + 1) ELSE "low"

\* calculateRiskLevel answering 'high' when it cannot count
calculateRiskLevel_FailsHigh(ledger, productId, clock, ok) ==
    IF ok THEN Threshold(CountSince(ledger, productId, clock)) ELSE "high"

\* ok = FALSE: the COUNT query throws and the catch block answers 'low'
calculateRiskLevel(ledger, productId, clock, ok) ==
    IF ok THEN Threshold(CountSince(ledger, productId, clock)) ELSE "low"

\* ------------------------------------------------------------------------
\* POST /verify-token  (index.js 322-423)
\* ------------------------------------------------------------------------
VerifyInputs == issued \cup PriorTokens \cup ForgedTokens \cup {NoToken}

ScanEvent(productId, isValid, risk, message) ==
    [product_id |-> productId, is_valid |-> isValid, risk_level |-> risk,
     verified_at |-> now, error_message |-> message]

\* an INSERT into a ledger that keeps the newest row only
InsertVerification_KeepLatest(ledger, e) == <<e>>

\* an INSERT that overwrites the newest row instead of adding one
InsertVerification_Overwrite(ledger, e) ==
    IF ledger = <<>> THEN <<e>> ELSE [ledger EXCEPT ![Len(ledger)] = e]

\* INSERT INTO verifications ... : one atomic append by the database
InsertVerification(ledger, e) == Append(ledger, e)

RevokedAt(productId) ==
    IF productId \in ProductIds THEN revoked[productId] ELSE "none"

\* lines 323-338: body and key checks, jwt.verify, productId
VerifyStart(c, signedToken, limit) ==
    /\ Free(c)
    /\ Len(verifications) + InFlight("verify") < limit
    /\ IF signedToken = NoToken
       THEN /\ resp' = [resp EXCEPT ![c] =
                  [status |-> 400, valid |-> FALSE, error |-> "signedToken missing"]]
            /\ proc' = [proc EXCEPT ![c] = [pc |-> "done", op |-> "reject"]]
       ELSE IF PUBLIC_KEY = NoKey
       THEN /\ resp' = [resp EXCEPT ![c] =
                  [status |-> 500, valid |-> FALSE, error |-> "PUBLIC_KEY not set"]]
            /\ proc' = [proc EXCEPT ![c] = [pc |-> "done", op |-> "reject"]]
       ELSE LET verdict == jwtVerify(signedToken, PUBLIC_KEY, now)
                decoded == signedToken
                productId == IF decoded.data.id # "" THEN decoded.data.id ELSE "unknown"
            IN  /\ resp' = resp
                /\ proc' = [proc EXCEPT ![c] =
                     [pc |-> IF verdict = "ok" THEN "vt_check" ELSE "vt_catch",
                      op |-> "verify",
                      payload |-> decoded.data,
                      productId |-> IF verdict = "ok" THEN productId ELSE "",
                      isActive |-> TRUE,
                      risk |-> "",
                      err |-> IF verdict = "ok" THEN "" ELSE verdict,
                      verdict |-> verdict,
                      lookupFailed |-> FALSE,
                      wrote |-> 0,
                      expired |-> Expired(signedToken, now),
                      sawRevoked |-> RevokedAt(decoded.data.id),
                      token |-> signedToken,
                      disturbed |-> FALSE]]
    /\ UNCHANGED <<now, env, products, verifications, audit_log, issued, faults, revoked, tally>>

\* ProductCheck taking an id without a row for a deactivated one
ProductCheck_UnknownInactive(table, productId, ok) ==
    IF ok THEN productId \in DOMAIN table /\ table[productId].is_active ELSE TRUE

\* lines 341-353: isActive starts as true and is overwritten only when the
\* query resolves with a row
ProductCheck(table, productId, ok) ==
    IF ok /\ productId \in DOMAIN table THEN table[productId].is_active ELSE TRUE

\* lines 340-355: SELECT is_active ...; a throwing query leaves isActive = true
VerifyCheck(c) ==
    /\ At(c, "vt_check")
    /\ \E ok \in DbOutcomes :
        /\ Fault(ok)
        /\ LET productId == proc[c].productId
               isActive == ProductCheck(products, productId, ok)
           IN  proc' = [proc EXCEPT ![c].isActive = isActive,
                                    ![c].lookupFailed = ~ok,
                                    ![c].pc = IF isActive THEN "vt_risk" ELSE "vt_deact"]
    /\ UNCHANGED <<now, env, products, verifications, audit_log, resp, issued, revoked, tally>>

\* lines 355-368: this INSERT is in no inner try, a throw goes to the
\* handler's catch block
VerifyDeactivated(c) ==
    /\ At(c, "vt_deact")
    /\ \E ok \in DbOutcomes :
        /\ Fault(ok)
        /\ IF ok
           THEN /\ verifications' = InsertVerification(verifications,
                      ScanEvent(proc[c].productId, FALSE, "high", "Product deactivated"))
                /\ proc' = [proc EXCEPT ![c].pc = "done",
                                        ![c].wrote = Len(verifications')]
                /\ resp' = [resp EXCEPT ![c] =
                      [status |-> 200, valid |-> FALSE,
                       error |-> "This product has been deactivated",
                       payload |-> proc[c].payload, risk |-> "high"]]
           ELSE /\ proc' = [proc EXCEPT ![c].pc = "vt_catch", ![c].err = "db error"]
                /\ UNCHANGED <<verifications, resp>>
    /\ UNCHANGED <<now, env, products, audit_log, issued, revoked, tally>>

\* line 370
VerifyRisk(c) ==
    /\ At(c, "vt_risk")
    /\ \E ok \in DbOutcomes :
        /\ Fault(ok)
        /\ proc' = [proc EXCEPT
              ![c].risk = calculateRiskLevel(verifications, proc[c].productId, now, ok),
              ![c].pc = "vt_save"]
    /\ UNCHANGED <<now, env, products, verifications, audit_log, resp, issued, revoked, tally>>

\* lines 372-381: a throwing INSERT is logged and swallowed
VerifySave(c) ==
    /\ At(c, "vt_save")
    /\ \E ok \in DbOutcomes :
        /\ Fault(ok)
        /\ IF ok
           THEN /\ verifications' = InsertVerification(verifications,
                      ScanEvent(proc[c].productId, TRUE, proc[c].risk, ""))
                /\ proc' = [proc EXCEPT ![c].pc = "vt_count",
                                        ![c].wrote = Len(verifications')]
                /\ UNCHANGED tally
           ELSE /\ proc' = [proc EXCEPT ![c].pc = "vt_count"]
                /\ tally' = [tally EXCEPT !.unlogged = @ + 1]
                /\ UNCHANGED verifications
    /\ UNCHANGED <<now, env, products, audit_log, resp, issued, revoked>>

\* lines 383-402: scanCount stays 0 when the COUNT query throws
VerifyCount(c) ==
    /\ At(c, "vt_count")
    /\ \E ok \in DbOutcomes :
        /\ Fault(ok)
        /\ LET scanCount == IF ok THEN CountAll(verifications, proc[c].productId) ELSE 0
           IN  resp' = [resp EXCEPT ![c] =
                  [status |-> 200, valid |-> TRUE, payload |-> proc[c].payload,
                   risk |-> proc[c].risk, scanCount |-> scanCount]]
    /\ proc' = [proc EXCEPT ![c].pc = "done"]
    /\ tally' = [tally EXCEPT !.succeeded = @ + 1]
    /\ UNCHANGED <<now, env, products, verifications, audit_log, issued, revoked>>

\* a catch block that logs the failed attempt and sends nothing
VerifyCatch_NoReply(c) ==
    /\ At(c, "vt_catch")
    /\ proc' = [proc EXCEPT ![c].pc = "vt_lost"]
    /\ UNCHANGED <<now, env, products, verifications, audit_log, resp, issued,
                   faults, revoked, tally>>

\* lines 404-422: the failed attempt is logged under product_id 'unknown'
VerifyCatch(c) ==
    /\ At(c, "vt_catch")
    /\ \E ok \in DbOutcomes :
        /\ Fault(ok)
        /\ IF ok
           THEN /\ verifications' = InsertVerification(verifications,
                      ScanEvent("unknown", FALSE, "high", proc[c].err))
                /\ proc' = [proc EXCEPT ![c].pc = "done",
                                        ![c].wrote = Len(verifications')]
           ELSE /\ proc' = [proc EXCEPT ![c].pc = "done"]
                /\ UNCHANGED verifications
    /\ resp' = [resp EXCEPT ![c] =
          [status |-> 400, valid |-> FALSE, error |-> "Invalid or expired token",
           details |-> proc[c].err]]
    /\ UNCHANGED <<now, env, products, audit_log, issued, revoked, tally>>

\* ------------------------------------------------------------------------
\* POST /products/:id/deactivate and /activate  (index.js 485-535)
\* ------------------------------------------------------------------------
\* SetActive with deactivation done by deleting the row
SetActive_HardDelete(table, id, value) ==
    IF value THEN [table EXCEPT ![id].is_active = TRUE]
    ELSE [p \in DOMAIN table \ {id} |-> table[p]]

\* UPDATE products SET is_active = <value> WHERE product_id = $1
SetActive(table, id, value) == [table EXCEPT ![id].is_active = value]

\* a handler that does not look at result.rows.length: it goes on to the audit
\* log whether the UPDATE has found a row or not
SetActiveUpdate_NoRowCheck(c, id, value, limit) ==
    /\ Free(c)
    /\ Len(audit_log) + InFlight("admin") + InFlight("sign") < limit
    /\ products' = IF id \in DOMAIN products THEN SetActive(products, id, value)
                   ELSE products
    /\ proc' = [proc EXCEPT ![c] = [pc |-> "ad_audit", op |-> "admin", id |-> id,
                                    value |-> value, overlap |-> FALSE]]
    /\ UNCHANGED <<now, env, verifications, audit_log, resp, issued, faults,
                   revoked, tally>>

\* lines 487-494 and 513-520:
\* UPDATE products SET is_active = <value> WHERE product_id = $1 RETURNING *
SetActiveUpdate(c, id, value, limit) ==
    /\ Free(c)
    /\ Len(audit_log) + InFlight("admin") + InFlight("sign") < limit
    /\ \E ok \in DbOutcomes :
        /\ Fault(ok)
        /\ IF ~ok
           THEN /\ resp' = [resp EXCEPT ![c] = [status |-> 500, error |->
                      IF value THEN "Failed to activate product"
                      ELSE "Failed to deactivate product"]]
                /\ proc' = [proc EXCEPT ![c] = [pc |-> "done", op |-> "admin"]]
                /\ UNCHANGED <<products, revoked>>
           ELSE IF id \notin DOMAIN products
           THEN /\ resp' = [resp EXCEPT ![c] =
                      [status |-> 404, error |-> "Product not found"]]
                /\ proc' = [proc EXCEPT ![c] = [pc |-> "done", op |-> "admin"]]
                /\ UNCHANGED <<products, revoked>>
           ELSE LET busy == {d \in Clients \ {c} :
                                proc[d].pc = "ad_audit" /\ proc[d].id = id}
                    scanning == {d \in Clients \ {c} :
                                proc[d].op = "verify" /\ proc[d].payload.id = id}
                IN  /\ products' = SetActive(products, id, value)
                    /\ proc' = [d \in Clients |->
                          IF d = c THEN [pc |-> "ad_audit", op |-> "admin", id |-> id,
                                         value |-> value, overlap |-> busy # {}]
                          ELSE IF d \in busy THEN [proc[d] EXCEPT !.overlap = TRUE]
                          ELSE IF d \in scanning THEN [proc[d] EXCEPT !.disturbed = TRUE]
                          ELSE proc[d]]
                    /\ revoked' = [revoked EXCEPT ![id] = "none"]
                    /\ resp' = resp
    /\ UNCHANGED <<now, env, verifications, audit_log, issued, tally>>

\* lines 496-504 and 522-530: INSERT INTO audit_log ..., then the response
SetActiveAudit(c) ==
    /\ At(c, "ad_audit")
    /\ \E ok \in DbOutcomes :
        /\ Fault(ok)
        /\ IF ok
           THEN /\ audit_log' = Append(audit_log,
                      <<IF proc[c].value THEN "PRODUCT_ACTIVATED"
                        ELSE "PRODUCT_DEACTIVATED", proc[c].id>>)
                /\ resp' = [resp EXCEPT ![c] = [status |-> 200, message |->
                      IF proc[c].value THEN "Product activated"
                      ELSE "Product deactivated"]]
                /\ revoked' = [revoked EXCEPT ![proc[c].id] =
                      IF proc[c].overlap THEN @
                      ELSE IF proc[c].value THEN "activated" ELSE "deactivated"]
           ELSE /\ resp' = [resp EXCEPT ![c] = [status |-> 500, error |->
                      IF proc[c].value THEN "Failed to activate product"
                      ELSE "Failed to deactivate product"]]
                /\ UNCHANGED <<audit_log, revoked>>
    /\ proc' = [proc EXCEPT ![c].pc = "done"]
    /\ UNCHANGED <<now, env, products, verifications, issued, tally>>

Deactivate(c, id, limit) == SetActiveUpdate(c, id, FALSE, limit)

Activate(c, id, limit) == SetActiveUpdate(c, id, TRUE, limit)

\* ------------------------------------------------------------------------
\* POST /sign-qr  (index.js 160-229) and POST /sign-qr-with-logo  (234-317),
\* which differ in the picture they draw and in the action they log
\* ------------------------------------------------------------------------
\* lines 218-223 and 305-311: reached after the database block, whatever
\* happened in it
SignQrRespond(c) ==
    /\ resp' = [resp EXCEPT ![c] =
          [status |-> 200, signedToken |-> proc[c].signedToken,
           productId |-> proc[c].payload.id]]
    /\ issued' = issued \cup {proc[c].signedToken}

Signing == {proc[c].signedToken : c \in {d \in Clients : proc[d].op = "sign"}}

Routes == {"/sign-qr", "/sign-qr-with-logo"}

\* lines 161-183 and 235-270: key check and jwt.sign
SignQrStart(c, payload, route, limit, tokens) ==
    /\ Free(c)
    /\ Len(audit_log) + InFlight("admin") + InFlight("sign") < limit
    /\ IF PRIVATE_KEY = NoKey
       THEN /\ resp' = [resp EXCEPT ![c] =
                  [status |-> 500, error |-> "PRIVATE_KEY not set"]]
            /\ proc' = [proc EXCEPT ![c] = [pc |-> "done", op |-> "reject"]]
       ELSE LET signedToken == jwtSign(payload, PRIVATE_KEY, now, TRUE, TenYears)
            IN  /\ Cardinality(issued \cup Signing \cup {signedToken}) <= tokens
                /\ proc' = [proc EXCEPT ![c] =
                      [pc |-> "sq_select", op |-> "sign", payload |-> payload,
                       signedToken |-> signedToken, route |-> route]]
                /\ resp' = resp
    /\ UNCHANGED <<now, env, products, verifications, audit_log, issued, faults, revoked, tally>>

\* lines 187-192 and 274-279: SELECT id FROM products WHERE product_id = $1
SignQrSelect(c) ==
    /\ At(c, "sq_select")
    /\ \E ok \in DbOutcomes :
        /\ Fault(ok)
        /\ IF ok
           THEN /\ proc' = [proc EXCEPT ![c].pc =
                      IF proc[c].payload.id \in DOMAIN products
                      THEN "sq_update" ELSE "sq_insert"]
                /\ UNCHANGED <<resp, issued>>
           ELSE /\ proc' = [proc EXCEPT ![c].pc = "done"]
                /\ SignQrRespond(c)
    /\ UNCHANGED <<now, env, products, verifications, audit_log, revoked, tally>>

\* table products: product_id is the primary key, is_active defaults to true
InsertProduct(table, row) ==
    [p \in DOMAIN table \cup {row.product_id} |->
        IF p = row.product_id
        THEN [name |-> row.name, signed_token |-> row.signed_token, is_active |-> TRUE]
        ELSE table[p]]

InsertProductFails(table, row) ==
    row.product_id = "" \/ row.product_id \in DOMAIN table

\* lines 193-198 and 280-285: INSERT INTO products ...
SignQrInsert(c) ==
    /\ At(c, "sq_insert")
    /\ \E ok \in DbOutcomes :
        /\ Fault(ok)
        /\ LET row == [product_id |-> proc[c].payload.id, name |-> proc[c].payload.name,
                       signed_token |-> proc[c].signedToken]
           IN  IF ok /\ ~InsertProductFails(products, row)
               THEN /\ products' = InsertProduct(products, row)
                    /\ proc' = [proc EXCEPT ![c].pc = "sq_audit"]
                    /\ UNCHANGED <<resp, issued>>
               ELSE /\ proc' = [proc EXCEPT ![c].pc = "done"]
                    /\ SignQrRespond(c)
                    /\ UNCHANGED products
    /\ UNCHANGED <<now, env, verifications, audit_log, revoked, tally>>

\* UpdateProduct writing is_active = true as well, as an upsert of the whole
\* row would
UpdateProduct_Reactivates(table, id, name, signedToken) ==
    [table EXCEPT ![id] = [name |-> name, signed_token |-> signedToken, is_active |-> TRUE]]

\* UPDATE products SET name = $2, batch = $3, qr_data_url = $4, signed_token = $5
\* WHERE product_id = $1
UpdateProduct(table, id, name, signedToken) ==
    [table EXCEPT ![id].name = name, ![id].signed_token = signedToken]

\* lines 200-206 and 287-293: UPDATE products SET name, batch, qr_data_url, signed_token
SignQrUpdate(c) ==
    /\ At(c, "sq_update")
    /\ \E ok \in DbOutcomes :
        /\ Fault(ok)
        /\ IF ok
           THEN /\ products' = UpdateProduct(products, proc[c].payload.id,
                                               proc[c].payload.name, proc[c].signedToken)
                /\ proc' = [proc EXCEPT ![c].pc = "sq_audit"]
                /\ UNCHANGED <<resp, issued>>
           ELSE /\ proc' = [proc EXCEPT ![c].pc = "done"]
                /\ SignQrRespond(c)
                /\ UNCHANGED products
    /\ UNCHANGED <<now, env, verifications, audit_log, revoked, tally>>

\* lines 209-223 and 296-311: INSERT INTO audit_log ..., then the response
SignQrAudit(c) ==
    /\ At(c, "sq_audit")
    /\ \E ok \in DbOutcomes :
        /\ Fault(ok)
        /\ IF ok
           THEN audit_log' = Append(audit_log,
                    <<IF proc[c].route = "/sign-qr" THEN "QR_GENERATED"
                      ELSE "QR_WITH_LOGO_GENERATED", proc[c].payload.id>>)
           ELSE UNCHANGED audit_log
    /\ proc' = [proc EXCEPT ![c].pc = "done"]
    /\ SignQrRespond(c)
    /\ UNCHANGED <<now, env, products, verifications, revoked, tally>>

\* ------------------------------------------------------------------------
\* The clock
\* ------------------------------------------------------------------------
Tick(limit) ==
    /\ Quiet
    /\ now < limit * TickHours
    /\ now' = now + TickHours
    /\ UNCHANGED <<env, products, verifications, audit_log,
                   proc, resp, issued, faults, revoked, tally>>

\* ------------------------------------------------------------------------
\* The server under concurrent clients
\* ------------------------------------------------------------------------
Next ==
    \/ \E c \in Clients : \E t \in VerifyInputs : VerifyStart(c, t, MaxLedger)
    \/ \E c \in Clients : VerifyCheck(c)
    \/ \E c \in Clients : VerifyDeactivated(c)
    \/ \E c \in Clients : VerifyRisk(c)
    \/ \E c \in Clients : VerifySave(c)
    \/ \E c \in Clients : VerifyCount(c)
    \/ \E c \in Clients : VerifyCatch(c)
    \/ \E c \in Clients : \E id \in ProductIds : Deactivate(c, id, MaxAudit)
    \/ \E c \in Clients : \E id \in ProductIds : Activate(c, id, MaxAudit)
    \/ \E c \in Clients : SetActiveAudit(c)
    \/ \E c \in Clients : \E p \in Payloads :
          SignQrStart(c, p, "/sign-qr", MaxAudit, MaxIssued)
    \/ \E c \in Clients : SignQrSelect(c)
    \/ \E c \in Clients : SignQrInsert(c)
    \/ \E c \in Clients : SignQrUpdate(c)
    \/ \E c \in Clients : SignQrAudit(c)
    \/ \E c \in Clients : Receive(c)
    \/ Tick(MaxTicks)

Spec == Init /\ [][Next]_vars

\* ------------------------------------------------------------------------
\* One client scanning one registered, active product again and again.  The
\* ledger starts with the record of one failed attempt.
\* ------------------------------------------------------------------------
InitSeq ==
    /\ now = 0
    /\ PRIVATE_KEY = "priv-A"
    /\ PUBLIC_KEY = "pub-A"
    /\ products = InsertProduct(EmptyTable,
          [product_id |-> "SKU-42", name |-> "Widget", signed_token |-> OldToken])
    /\ verifications = <<ScanEvent("unknown", FALSE, "high", "jwt expired")>>
    /\ audit_log = <<<<"QR_GENERATED", "SKU-42">>>>
    /\ proc = [c \in Clients |-> Idle]
    /\ resp = [c \in Clients |-> NoResp]
    /\ issued = {}
    /\ faults = 0
    /\ revoked = [p \in ProductIds |-> "none"]
    /\ tally = [succeeded |-> 0, unlogged |-> 0]
    /\ product_scans = <<>>
    /\ CanonUnused

NextSeq ==
    \/ VerifyStart("c1", PlainToken, MaxScans)
    \/ VerifyCheck("c1")
    \/ VerifyRisk("c1")
    \/ VerifySave("c1")
    \/ VerifyCount("c1")
    \/ Receive("c1")
    \/ Tick(MaxSeqTicks)

SpecSeq == InitSeq /\ [][NextSeq]_vars

\* ------------------------------------------------------------------------
\* The life of the registry and of the ledger: one client signing, signing
\* again, scanning, deactivating, activating and reading the ledger
\* ------------------------------------------------------------------------
\* lines 541-587: GET /verifications?product_id=...
GetVerifications(c, product_id) ==
    /\ Free(c)
    /\ \E ok \in DbOutcomes :
        /\ Fault(ok)
        /\ resp' = [resp EXCEPT ![c] =
              IF ok
              THEN [status |-> 200,
                    verifications |->
                        SelectSeq(verifications, LAMBDA e : e.product_id = product_id)]
              ELSE [status |-> 500, error |-> "Failed to fetch verifications"]]
    /\ proc' = [proc EXCEPT ![c] = [pc |-> "done", op |-> "query"]]
    /\ UNCHANGED <<now, env, products, verifications, audit_log, issued, revoked, tally>>

InitLife ==
    /\ now = 0
    /\ PRIVATE_KEY = "priv-A"
    /\ PUBLIC_KEY = "pub-A"
    /\ products = EmptyTable
    /\ verifications = <<>>
    /\ audit_log = <<>>
    /\ proc = [c \in Clients |-> Idle]
    /\ resp = [c \in Clients |-> NoResp]
    /\ issued = {}
    /\ faults = 0
    /\ revoked = [p \in ProductIds |-> "none"]
    /\ tally = [succeeded |-> 0, unlogged |-> 0]
    /\ product_scans = <<>>
    /\ CanonUnused

NextLife ==
    \/ \E p \in Payloads : \E route \in Routes :
          SignQrStart("c1", p, route, MaxLifeAudit, MaxLifeIssued)
    \/ SignQrSelect("c1")
    \/ SignQrInsert("c1")
    \/ SignQrUpdate("c1")
    \/ SignQrAudit("c1")
    \/ \E t \in issued \cup {PlainToken} : VerifyStart("c1", t, MaxLifeLedger)
    \/ VerifyCheck("c1")
    \/ VerifyDeactivated("c1")
    \/ VerifyRisk("c1")
    \/ VerifySave("c1")
    \/ VerifyCount("c1")
    \/ VerifyCatch("c1")
    \/ \E id \in ProductIds : Deactivate("c1", id, MaxLifeAudit)
    \/ \E id \in ProductIds : Activate("c1", id, MaxLifeAudit)
    \/ SetActiveAudit("c1")
    \/ \E id \in ProductIds : GetVerifications("c1", id)
    \/ Receive("c1")
    \/ Tick(MaxTicks)

SpecLife == InitLife /\ [][NextLife]_vars

\* ------------------------------------------------------------------------
\* The canonical signing server  (part_003)
\* JSON values as JSON.parse builds them: [s |-> string], [n |-> finite
\* number], [inf |-> sign] for a number literal beyond the double range
\* (1e999 parses to Infinity, -1e999 to -Infinity), [null |-> TRUE],
\* [a |-> elements in order], [o |-> <<key, value>> pairs in insertion order];
\* [u |-> TRUE] is the undefined of an absent body field
\* ------------------------------------------------------------------------
Str(x) == [s |-> x]
Num(x) == [n |-> x]
Arr(items) == [a |-> items]
Obj(pairs) == [o |-> pairs]
Undefined == [u |-> TRUE]
Null == [null |-> TRUE]
Infinity == [inf |-> 1]
NegInfinity == [inf |-> -1]

IsObj(v) == "o" \in DOMAIN v
IsArr(v) == "a" \in DOMAIN v
Keys(v) == {v.o[i][1] : i \in DOMAIN v.o}
Get(v, k) == v.o[CHOOSE i \in DOMAIN v.o : v.o[i][1] = k][2]

\* !v of JavaScript, for the values above
Falsy(v) == v = Undefined \/ v = Null \/ v = Str("") \/ v = Num(0)

\* the keys that occur, in the order of Array.prototype.sort (UTF-16 code units)
KeyOrder == <<"batch", "dims", "id", "issuedAt", "issuer", "meta", "name", "tags", "w", "x">>
KeyRank(k) == CHOOSE i \in DOMAIN KeyOrder : KeyOrder[i] = k

RECURSIVE SortKeys(_)
SortKeys(ks) ==
    IF ks = {} THEN <<>>
    ELSE LET first == CHOOSE k \in ks : \A j \in ks : KeyRank(k) <= KeyRank(j)
         IN  <<first>> \o SortKeys(ks \ {first})

\* Array.prototype.join(",")
RECURSIVE Join(_)
Join(parts) ==
    IF parts = <<>> THEN ""
    ELSE IF Len(parts) = 1 THEN parts[1]
    ELSE parts[1] \o "," \o Join(Tail(parts))

\* JSON.stringify of a value that is null or not an object: a string is
\* quoted, a finite number printed, null and the non-finite numbers are "null"
stringify(v) ==
    IF "s" \in DOMAIN v THEN "\"" \o v.s \o "\""
    ELSE IF "n" \in DOMAIN v THEN ToString(v.n)
    ELSE "null"

\* lines 52-57
RECURSIVE canonicalize(_)
canonicalize(obj) ==
    IF IsArr(obj)
    THEN "[" \o Join([i \in DOMAIN obj.a |-> canonicalize(obj.a[i])]) \o "]"
    ELSE IF IsObj(obj)
    THEN LET keys == SortKeys(Keys(obj))
         IN  "{" \o Join([i \in DOMAIN keys |->
                 stringify(Str(keys[i])) \o ":" \o canonicalize(Get(obj, keys[i]))]) \o "}"
    ELSE stringify(obj)

\* crypto.createSign("SHA256") ... sign(PRIVATE_PEM), as perfect cryptography
cryptoSign(privateKey, message) == [key |-> privateKey, message |-> message]

\* cryptoVerify comparing the signed text only, whoever signed it
cryptoVerify_AnyKey(publicKey, message, signature) ==
    signature.message = message

\* crypto.createVerify("SHA256") ... verify(PUBLIC_PEM, signature)
cryptoVerify(publicKey, message, signature) ==
    /\ signature.key \in DOMAIN PublicOf
    /\ PublicOf[signature.key] = publicKey
    /\ signature.message = message

\* LoadKeys with a catch block that does not reset PRIVATE_PEM: a key that
\* cannot be parsed stays in place and no public key is derived
LoadKeys_KeepsBadKey(envKey, localPem) ==
    LET found == IF envKey # NoKey THEN envKey ELSE localPem
    IN  IF found = NoKey THEN [private |-> "priv-G", public |-> "pub-G"]
        ELSE IF found \in DOMAIN PublicOf
        THEN [private |-> found, public |-> PublicOf[found]]
        ELSE [private |-> found, public |-> NoKey]

\* lines 17-49: the key from the environment, else from private.pem, else a
\* generated pair; a key that cannot be parsed is dropped
LoadKeys(envKey, localPem) ==
    LET found == IF envKey # NoKey THEN envKey ELSE localPem
        usable == found # NoKey /\ found \in DOMAIN PublicOf
    IN  IF usable THEN [private |-> found, public |-> PublicOf[found]]
        ELSE [private |-> "priv-G", public |-> "pub-G"]

\* the value of a JSON value, the insertion order of keys left aside
RECURSIVE Norm(_)
Norm(v) ==
    IF IsArr(v) THEN Arr([i \in DOMAIN v.a |-> Norm(v.a[i])])
    ELSE IF IsObj(v) THEN Obj([k \in Keys(v) |-> Norm(Get(v, k))])
    ELSE v

Remove(seq, i) == SubSeq(seq, 1, i - 1) \o SubSeq(seq, i + 1, Len(seq))

Scalars == {Str("SKU-7"), Str("1"), Num(1), Null, Infinity, NegInfinity}

\* every value one edit away: a scalar replaced, a field or element removed,
\* a field or element added, at any depth
RECURSIVE Mutations(_)
Mutations(v) ==
    IF IsObj(v)
    THEN UNION {{Obj([v.o EXCEPT ![i] = <<v.o[i][1], m>>]) : m \in Mutations(v.o[i][2])}
                    : i \in DOMAIN v.o}
         \cup {Obj(Remove(v.o, i)) : i \in DOMAIN v.o}
         \cup {Obj(Append(v.o, <<k, Num(1)>>)) : k \in {"x"} \ Keys(v)}
    ELSE IF IsArr(v)
    THEN UNION {{Arr([v.a EXCEPT ![i] = m]) : m \in Mutations(v.a[i])} : i \in DOMAIN v.a}
         \cup {Arr(Remove(v.a, i)) : i \in DOMAIN v.a}
         \cup {Arr(Append(v.a, Str("1")))}
    ELSE Scalars \ {v}

\* the same value with the keys inserted in the opposite order, at every depth
RECURSIVE Reversed(_)
Reversed(v) ==
    IF IsObj(v)
    THEN Obj([i \in DOMAIN v.o |->
                 <<v.o[Len(v.o) + 1 - i][1], Reversed(v.o[Len(v.o) + 1 - i][2])>>])
    ELSE IF IsArr(v) THEN Arr([i \in DOMAIN v.a |-> Reversed(v.a[i])])
    ELSE v

\* every order in which the members of a set can be listed
RECURSIVE Orders(_)
Orders(S) ==
    IF S = {} THEN {<<>>}
    ELSE UNION {{<<x>> \o rest : rest \in Orders(S \ {x})} : x \in S}

\* the same value with its keys inserted in any order, at every depth
RECURSIVE Permuted(_)
RECURSIVE PermutedPairs(_)
PermutedPairs(pairs) ==
    IF pairs = <<>> THEN {{}}
    ELSE {{<<pairs[1][1], m>>} \cup rest :
             m \in Permuted(pairs[1][2]), rest \in PermutedPairs(Tail(pairs))}
Permuted(v) ==
    IF IsObj(v) THEN {Obj(ps) : ps \in UNION {Orders(S) : S \in PermutedPairs(v.o)}}
    ELSE IF IsArr(v)
    THEN LET RECURSIVE Elements(_)
             Elements(items) ==
                 IF items = <<>> THEN {<<>>}
                 ELSE {<<m>> \o rest : m \in Permuted(items[1]), rest \in Elements(Tail(items))}
         IN  {Arr(items) : items \in Elements(v.a)}
    ELSE {v}

\* the same value with the elements of every array in the opposite order
RECURSIVE ArraysReversed(_)
ArraysReversed(v) ==
    IF IsObj(v) THEN Obj([i \in DOMAIN v.o |-> <<v.o[i][1], ArraysReversed(v.o[i][2])>>])
    ELSE IF IsArr(v) THEN Arr([i \in DOMAIN v.a |-> ArraysReversed(v.a[Len(v.a) + 1 - i])])
    ELSE v

\* request bodies of /sign
Metas ==
    { Undefined,
      Obj(<< <<"batch", Str("B1")>> >>),
      Obj(<< <<"dims", Obj(<< <<"w", Num(1)>> >>)>>, <<"batch", Str("B1")>> >>),
      Obj(<< <<"tags", Arr(<<Str("B1"), Null>>)>> >>),
      Obj(<< <<"batch", Null>> >>),
      Obj(<< <<"w", Infinity>> >>) }
SignBodies ==
    {[id |-> i, name |-> n, meta |-> m, batch |-> b] :
        i \in {Str("SKU-42"), Undefined}, n \in {Str("Widget"), Str("")}, m \in Metas,
        b \in {Undefined, Str("B1")}}

\* the request body as the JSON object the client sent: absent fields left out
BodyObject(body) ==
    Obj(SelectSeq(<< <<"id", body.id>>, <<"name", body.name>>,
                     <<"meta", body.meta>>, <<"batch", body.batch>> >>,
                  LAMBDA pair : pair[2] # Undefined))

\* JSON.stringify followed by JSON.parse, as res.json and the signedToken do
\* to a value: the non-finite numbers arrive as null
RECURSIVE Transport(_)
Transport(v) ==
    IF IsObj(v) THEN Obj([i \in DOMAIN v.o |-> <<v.o[i][1], Transport(v.o[i][2])>>])
    ELSE IF IsArr(v) THEN Arr([i \in DOMAIN v.a |-> Transport(v.a[i])])
    ELSE IF "inf" \in DOMAIN v THEN Null
    ELSE v

\* lines 76-117: POST /sign
Sign(body) ==
    /\ wire = NoWire
    /\ IF Falsy(body.id) \/ Falsy(body.name)
       THEN /\ answer' = [status |-> 400, error |-> "id and name required"]
            /\ UNCHANGED <<wire, attested>>
       ELSE LET payload == Obj(<< <<"id", body.id>>, <<"name", body.name>>,
                                  <<"meta", IF Falsy(body.meta) THEN Obj(<<>>) ELSE body.meta>>,
                                  <<"issuedAt", Num(now)>>,
                                  <<"issuer", Str("myproductauth")>> >>)
                payloadJson == canonicalize(payload)
                signature == cryptoSign(PRIVATE_PEM, payloadJson)
            IN  /\ wire' = [payload |-> Transport(payload), signature |-> signature,
                             edits |-> 0, body |-> BodyObject(body)]
                /\ attested' = Transport(payload)
                /\ answer' = [status |-> 200, payload |-> Transport(payload),
                              signature |-> signature]
    /\ UNCHANGED <<backend, PRIVATE_PEM, PUBLIC_PEM>>

\* somebody changes the payload of the signed data and keeps the signature
Tamper ==
    /\ wire # NoWire
    /\ wire.edits < MaxEdits
    /\ \E m \in Mutations(wire.payload) :
          wire' = [wire EXCEPT !.payload = m, !.edits = @ + 1]
    /\ UNCHANGED <<backend, PRIVATE_PEM, PUBLIC_PEM, attested, answer>>

\* a client rebuilds the same payload with its keys in another order
Reorder ==
    /\ wire # NoWire
    /\ wire.payload # Reversed(wire.payload)
    /\ wire' = [wire EXCEPT !.payload = Reversed(wire.payload)]
    /\ UNCHANGED <<backend, PRIVATE_PEM, PUBLIC_PEM, attested, answer>>

\* a counterfeiter signs the payload with a key of their own
Resign ==
    /\ wire # NoWire
    /\ wire.signature.key # "priv-B"
    /\ wire' = [wire EXCEPT !.signature = cryptoSign("priv-B", canonicalize(wire.payload))]
    /\ UNCHANGED <<backend, PRIVATE_PEM, PUBLIC_PEM, attested, answer>>

\* lines 120-151: POST /verify
Verify ==
    /\ wire # NoWire
    /\ LET payloadObj == wire.payload
           payloadJson == canonicalize(payloadObj)
           ok == cryptoVerify(PUBLIC_PEM, payloadJson, wire.signature)
       IN  answer' = [status |-> 200, valid |-> ok, payload |-> payloadObj,
                      signer |-> wire.signature.key]
    /\ UNCHANGED <<backend, PRIVATE_PEM, PUBLIC_PEM, wire, attested>>

InitCanon ==
    /\ now = 0
    /\ PRIVATE_KEY = NoKey
    /\ PUBLIC_KEY = NoKey
    /\ products = EmptyTable
    /\ verifications = <<>>
    /\ audit_log = <<>>
    /\ proc = [c \in Clients |-> Idle]
    /\ resp = [c \in Clients |-> NoResp]
    /\ issued = {}
    /\ faults = 0
    /\ revoked = [p \in ProductIds |-> "none"]
    /\ tally = [succeeded |-> 0, unlogged |-> 0]
    /\ product_scans = <<>>
    /\ \E envKey \in {NoKey, "priv-A", "not a key"} :
       \E localPem \in {NoKey, "priv-L", "not a key"} :
          /\ PRIVATE_PEM = LoadKeys(envKey, localPem).private
          /\ PUBLIC_PEM = LoadKeys(envKey, localPem).public
    /\ wire = NoWire
    /\ attested = NoWire
    /\ answer = NoResp

NextCanon ==
    \/ \E body \in SignBodies : Sign(body)
    \/ Tamper
    \/ Reorder
    \/ Resign
    \/ Verify

SpecCanon == InitCanon /\ [][NextCanon]_vars

\* ------------------------------------------------------------------------
\* The two verifiers side by side, each with keys in place: the run uses
\* either /verify-token of index.js or the server of part_003
\* ------------------------------------------------------------------------
InitKeys ==
    /\ now = 0
    /\ PRIVATE_KEY = "priv-A"
    /\ PUBLIC_KEY = "pub-A"
    /\ products = EmptyTable
    /\ verifications = <<>>
    /\ audit_log = <<>>
    /\ proc = [c \in Clients |-> Idle]
    /\ resp = [c \in Clients |-> NoResp]
    /\ issued = {}
    /\ faults = 0
    /\ revoked = [p \in ProductIds |-> "none"]
    /\ tally = [succeeded |-> 0, unlogged |-> 0]
    /\ product_scans = <<>>
    /\ \E envKey \in {NoKey, "priv-A", "not a key"} :
       \E localPem \in {NoKey, "priv-L", "not a key"} :
          /\ PRIVATE_PEM = LoadKeys(envKey, localPem).private
          /\ PUBLIC_PEM = LoadKeys(envKey, localPem).public
    /\ wire = NoWire
    /\ attested = NoWire
    /\ answer = NoResp

BackendUnused == verifications = <<>> /\ faults = 0 /\ \A c \in Clients : proc[c] = Idle

NextKeys ==
    \/ /\ wire = NoWire /\ answer = NoResp
       /\ \/ \E t \in VerifyInputs : VerifyStart("c1", t, MaxLedger)
          \/ VerifyCheck("c1")
          \/ VerifyRisk("c1")
          \/ VerifySave("c1")
          \/ VerifyCount("c1")
          \/ VerifyCatch("c1")
          \/ Receive("c1")
    \/ /\ BackendUnused
       /\ NextCanon

SpecKeys == InitKeys /\ [][NextKeys]_vars

\* ========================================================================
\* Properties
\* ========================================================================
\* /verify-token has answered client c after decoding a token
Answered(c) == proc[c].pc = "done" /\ proc[c].op = "verify"

\* the three outcomes of a verification
Category(r) ==
    IF r.valid THEN "valid"
    ELSE IF r.error = "This product has been deactivated" THEN "deactivated"
    ELSE "invalid"

\* the token passed the signature and expiry checks, and no activate or
\* deactivate request touched its product while the call ran
Undisturbed(c) == Answered(c) /\ proc[c].verdict = "ok" /\ ~proc[c].disturbed

\* C1 - Deactivation override: a token that passes the signature and expiry
\* checks, for an id whose registry entry has is_active = false, is answered
\* valid:false with the deactivation reason, never valid:true and never with
\* the invalid-token reason.
C1_DeactivationOverride ==
    \A c \in Clients :
        (/\ Undisturbed(c)
         /\ proc[c].productId \in DOMAIN products
         /\ ~products[proc[c].productId].is_active)
        => Category(resp[c]) = "deactivated"

\* C2 - Deactivation is immediate and global: a verification that starts after
\* a deactivate request for its id has completed is answered "deactivated",
\* and one that starts after an activate request has completed is answered
\* valid:true.
C2_ImmediateAndGlobal ==
    \A c \in Clients :
        Undisturbed(c) =>
            /\ proc[c].sawRevoked = "deactivated" => Category(resp[c]) = "deactivated"
            /\ proc[c].sawRevoked = "activated" => Category(resp[c]) = "valid"

\* what the checks of a verification decide, the ledger left aside
Decided(c) ==
    IF proc[c].verdict # "ok" THEN "invalid"
    ELSE IF ~proc[c].isActive THEN "deactivated"
    ELSE "valid"

\* C3 - A ledger write failure never changes the outcome: the category of the
\* answer is the one the token check and the registry check decided, whether
\* the INSERT into the ledger succeeded or threw, on the deactivated path too.
C3_LedgerFailureKeepsOutcome ==
    \A c \in Clients : Answered(c) => Category(resp[c]) = Decided(c)

\* C4 - Fail-closed deactivation check: when the registry lookup throws, the
\* verification is not answered valid:true.
C4_FailClosedLookup ==
    \A c \in Clients : (Answered(c) /\ proc[c].lookupFailed) => ~resp[c].valid

\* the thresholds as the specification words them
SpecLevel(n) == IF n <= 3 THEN "low" ELSE IF n <= 10 THEN "medium" ELSE "high"

\* ledger events of a product id that are less than 24 hours old
Recent(productId) ==
    {i \in DOMAIN verifications :
        /\ verifications[i].product_id = productId
        /\ now - verifications[i].verified_at < WindowHours}

\* the step in which calculateRiskLevel runs for client c
Scored(c) == proc[c].pc = "vt_risk" /\ proc'[c].pc = "vt_save"

\* C5 as claimed - calculateRiskLevel always answers by the thresholds: low up
\* to 3 events of the id in the trailing 24 hours, medium up to 10, high above.
C5_ThresholdsAlways ==
    [][\A c \in Clients :
          Scored(c) => proc'[c].risk = SpecLevel(Cardinality(Recent(proc[c].productId)))]_vars

\* C5 - Risk thresholds: when its COUNT query succeeds, calculateRiskLevel
\* answers low for at most 3 events of the id in the trailing 24 hours, medium
\* for 4 to 10, high for more than 10, other ids and older events not counting;
\* when the query throws it answers low.
C5_RiskThresholds ==
    [][\A c \in Clients :
          Scored(c) => proc'[c].risk =
              IF faults' = faults
              THEN SpecLevel(Cardinality(Recent(proc[c].productId)))
              ELSE "low"]_vars

\* a high score although the ledger also holds events that do not count
C5_Witness ==
    /\ proc["c1"].pc = "vt_save"
    /\ proc["c1"].risk = "high"
    /\ Cardinality(Recent("SKU-42")) > 10
    /\ CountAll(verifications, "SKU-42") > Cardinality(Recent("SKU-42"))
    /\ CountAll(verifications, "unknown") > 0

\* every event of the id is less than 24 hours old
AllRecent(productId) == Cardinality(Recent(productId)) = CountAll(verifications, productId)

\* client c got valid:true at the end of a run of calls for one id that all
\* fell into one 24-hour window, with no database failure
SeqCase(c) ==
    /\ Answered(c)
    /\ resp[c].valid
    /\ faults = 0
    /\ AllRecent(proc[c].productId)

Rank(r) == CASE r = "low" -> 1 [] r = "medium" -> 2 [] r = "high" -> 3

\* C7 - Monotonic risk escalation: in a run of calls for one active id within
\* one 24-hour window and without ledger failures, the risk returned by a call
\* is at least the risk returned by every earlier call.  (Each earlier call
\* stored the risk it returned in the row it wrote, lines 377 and 400.)
C7_MonotonicRisk ==
    \A c \in Clients :
        SeqCase(c) =>
            \A i \in DOMAIN verifications :
                (verifications[i].product_id = proc[c].productId /\ verifications[i].is_valid)
                => Rank(verifications[i].risk_level) <= Rank(resp[c].risk)

\* a call answered high after calls answered low and medium
C7_Witness ==
    /\ SeqCase("c1")
    /\ resp["c1"].risk = "high"
    /\ \E i, j \in DOMAIN verifications :
        /\ verifications[i].product_id = "SKU-42" /\ verifications[i].risk_level = "low"
        /\ verifications[j].product_id = "SKU-42" /\ verifications[j].risk_level = "medium"

ValidRows == {i \in DOMAIN verifications : verifications[i].is_valid}

\* verifications that have passed the INSERT and wait for their scan count
Counting == {c \in Clients : proc[c].op = "verify" /\ proc[c].pc = "vt_count"}

\* the row a verification wrote is its own
OwnRow(c) ==
    /\ proc[c].wrote \in DOMAIN verifications
    /\ verifications[proc[c].wrote].product_id = proc[c].productId
    /\ verifications[proc[c].wrote].is_valid

\* C8 as claimed - every successful verification has appended its own row:
\* the rows are as many as the successful calls.
C8_EveryCallLeavesARow ==
    /\ Cardinality(ValidRows) = tally.succeeded + Cardinality(Counting)
    /\ \A c \in Clients : (Answered(c) /\ resp[c].valid) => OwnRow(c)

\* C8 - Concurrent ledger integrity: under every interleaving, each successful
\* verification whose INSERT did not throw has its own row, distinct from the
\* row of every other call, and the rows are as many as the successful calls
\* less those whose INSERT threw.
C8_LedgerIntegrity ==
    /\ Cardinality(ValidRows) + tally.unlogged = tally.succeeded + Cardinality(Counting)
    /\ \A c \in Clients :
        (proc[c].op = "verify" /\ proc[c].verdict = "ok" /\ proc[c].isActive
            /\ proc[c].wrote # 0) => OwnRow(c)
    /\ \A c, d \in Clients :
        (c # d /\ proc[c].op = "verify" /\ proc[d].op = "verify" /\ proc[c].wrote # 0)
        => proc[c].wrote # proc[d].wrote

\* two overlapping verifications of one id, both with their row written
C8_Witness ==
    \E c, d \in Clients :
        /\ c # d
        /\ Answered(c) /\ resp[c].valid /\ proc[c].wrote # 0
        /\ d \in Counting /\ proc[d].wrote # 0
        /\ proc[c].productId = proc[d].productId
        /\ faults = 0

\* C10 - Expiry enforcement: a token whose expiry lies in the past is never
\* answered valid:true, and the row its verification writes is no valid scan
\* of its product: it is an invalid one under the id 'unknown'.
C10_ExpiryEnforced ==
    \A c \in Clients :
        (Answered(c) /\ proc[c].expired) =>
            /\ ~resp[c].valid
            /\ proc[c].wrote # 0 =>
                /\ ~verifications[proc[c].wrote].is_valid
                /\ verifications[proc[c].wrote].product_id = "unknown"

\* an expired token with a correct signature, for a registered active product
C10_Witness ==
    \E c \in Clients :
        /\ Answered(c)
        /\ proc[c].verdict = "jwt expired"
        /\ proc[c].wrote # 0
        /\ proc[c].payload.id \in DOMAIN products
        /\ products[proc[c].payload.id].is_active

\* C9 - Tamper sensitivity: whatever was done to the payload of a signed
\* token (the value of a field changed, nested ones included, a field added
\* or removed), /verify answers valid:true only if the payload still has the
\* value /sign put its signature on.
C9_TamperSensitive ==
    (answer.status = 200 /\ "valid" \in DOMAIN answer /\ answer.valid)
    => Norm(answer.payload) = Norm(attested)

\* /verify has answered for the signed data exactly as /sign issued it
VerifiedAsIssued ==
    /\ answer.status = 200 /\ "valid" \in DOMAIN answer
    /\ wire # NoWire /\ wire.edits = 0 /\ wire.signature.key = PRIVATE_PEM

\* C11 - Round-trip validity: for every body with id and name, verifying what
\* /sign produced answers valid:true, and the payload /verify returns
\* deep-equals the payload that was submitted to /sign.
C11_RoundTrip ==
    VerifiedAsIssued =>
        /\ answer.valid
        /\ Norm(answer.payload) = Norm(wire.body)

\* canonicalize gives one string for every insertion order of the keys
KeyOrderBlind(v) == \A w \in Permuted(v) : canonicalize(w) = canonicalize(v)

\* canonicalize tells apart two values that differ in the order of an array
ArrayOrderKept(v) ==
    Norm(ArraysReversed(v)) # Norm(v) => canonicalize(ArraysReversed(v)) # canonicalize(v)

\* C12 - Canonical determinism: for every payload /verify canonicalizes, every
\* permutation of the insertion order of its keys at every nesting level has
\* the identical canonical string, and a payload that differs from it only in
\* the order of array elements has a different one.
C12_CanonicalDeterminism ==
    wire # NoWire => (KeyOrderBlind(wire.payload) /\ ArrayOrderKept(wire.payload))

\* C13 - Wrong-key rejection: a token whose signature was made with a private
\* key that is not the pair of the verifier's public key is never answered
\* valid:true, by /verify of part_003 and by /verify-token of index.js alike.
C13_WrongKeyRejected ==
    /\ (answer.status = 200 /\ "valid" \in DOMAIN answer
            /\ (answer.signer \notin DOMAIN PublicOf \/ PublicOf[answer.signer] # PUBLIC_PEM))
       => ~answer.valid
    /\ \A c \in Clients :
        (Answered(c)
            /\ (proc[c].token.sig.key \notin DOMAIN PublicOf
                    \/ PublicOf[proc[c].token.sig.key] # PUBLIC_KEY))
        => ~resp[c].valid

\* /verify has refused the untouched payload of a signed token under the
\* signature of another key
C13_Witness ==
    /\ answer.status = 200 /\ "valid" \in DOMAIN answer /\ ~answer.valid
    /\ answer.signer = "priv-B"
    /\ PublicOf[answer.signer] # PUBLIC_PEM
    /\ Norm(answer.payload) = Norm(attested)

\* C14 - An id without a registry row is treated as active: a correctly
\* signed, unexpired token whose id has no row in table products is answered
\* valid:true.
C14_UnknownIdIsActive ==
    \A c \in Clients :
        (Answered(c) /\ proc[c].verdict = "ok" /\ proc[c].productId \notin DOMAIN products)
        => resp[c].valid

\* a token /sign-qr has just issued, whose row could not be written, verifies
C14_Witness ==
    \E c \in Clients :
        /\ Answered(c) /\ proc[c].verdict = "ok" /\ resp[c].valid
        /\ proc[c].productId = "SKU-42"
        /\ products = EmptyTable
        /\ issued # {}
        /\ ~proc[c].lookupFailed

\* C15 - The scan ledger is append-only: no step of a sign, verify, activate,
\* deactivate or query request modifies or removes a recorded scan event, so
\* the number of events of each product id never decreases.
C15_AppendOnly ==
    [][/\ Len(verifications') >= Len(verifications)
       /\ SubSeq(verifications', 1, Len(verifications)) = verifications
       /\ \A id \in ProductIds \cup {"unknown"} :
             CountAll(verifications', id) >= CountAll(verifications, id)]_vars

\* a valid scan and a deactivated scan of one product are in the ledger, in
\* this order, and GET /verifications has just returned both
C15_Witness ==
    /\ Len(verifications) = 2
    /\ verifications[1].is_valid
    /\ verifications[2].error_message = "Product deactivated"
    /\ resp["c1"].status = 200
    /\ "verifications" \in DOMAIN resp["c1"]
    /\ resp["c1"].verifications = verifications

\* the rows of a product id in the ledger
RowsOf(productId) == {i \in DOMAIN verifications : verifications[i].product_id = productId}

\* the step in which /verify-token reads the scan count and answers client c
Counted(c) == proc[c].pc = "vt_count" /\ proc'[c].pc = "done"

\* every row of the product id is a valid scan, and every valid scan is of it
OnlyValidScansOf(productId) ==
    \A i \in DOMAIN verifications :
        verifications[i].is_valid <=> verifications[i].product_id = productId

\* C16 as claimed - the scanCount of a successful verification is the number
\* of scan events of the id, the one this call wrote included; the first
\* successful verification returns 1 and 'low', the k-th returns k.
C16_ScanCountIsOrdinal ==
    [][\A c \in Clients :
          Counted(c) =>
              /\ resp'[c].scanCount = Cardinality(RowsOf(proc[c].productId))
              /\ OwnRow(c)
              /\ resp'[c].scanCount = tally'.succeeded]_vars

\* C16 - scanCount is derived from the ledger: when the COUNT query succeeds
\* it is the number of rows of the id, refused scans included, and it
\* includes the row of this call unless the INSERT of this call threw; when
\* the COUNT query throws it is 0.  With no database failure and no refused
\* scan of the id, the first successful verification returns 1 with risk
\* 'low' and the k-th returns k.
C16_ScanCountFromLedger ==
    [][\A c \in Clients :
          Counted(c) =>
              /\ resp'[c].scanCount =
                    IF faults' = faults THEN Cardinality(RowsOf(proc[c].productId)) ELSE 0
              /\ proc[c].wrote # 0 => OwnRow(c)
              /\ (faults' = 0 /\ OnlyValidScansOf(proc[c].productId)) =>
                    /\ resp'[c].scanCount = tally'.succeeded
                    /\ tally'.succeeded = 1 => resp'[c].risk = "low"]_vars

\* the first scan of a product /sign-qr has just registered: scanCount 1, low
C16_Witness ==
    /\ Answered("c1") /\ resp["c1"].valid
    /\ resp["c1"].scanCount = 1 /\ resp["c1"].risk = "low"
    /\ proc["c1"].productId \in DOMAIN products
    /\ products[proc["c1"].productId].signed_token \in issued
    /\ tally.succeeded = 1
    /\ faults = 0

\* C17 - The Signer validates the payload before signing: a sign request
\* whose payload lacks a non-empty id or a non-empty name is answered with an
\* error, no token is issued for it and no registry entry is created for it.
C17_SignerValidates ==
    \A c \in Clients :
        (proc[c].pc = "done" /\ proc[c].op = "sign"
            /\ (proc[c].payload.id = "" \/ proc[c].payload.name = ""))
        => /\ resp[c].status # 200
           /\ proc[c].signedToken \notin issued
           /\ proc[c].payload.id \notin DOMAIN products

\* C18 - is_active of an existing registry entry changes only through
\* activate and deactivate: a step that changes it is the UPDATE of such a
\* request for that id; no step of a sign request changes it, the update path
\* of a re-signing included, and no step of a verification changes any entry.
C18_OnlyAdminChangesActive ==
    [][/\ \A id \in DOMAIN products :
            (id \in DOMAIN products' /\ products'[id].is_active # products[id].is_active)
            => \E c \in Clients :
                  /\ proc[c].pc = "idle" /\ proc'[c].pc = "ad_audit"
                  /\ proc'[c].id = id
                  /\ products'[id].is_active = proc'[c].value
       /\ \A c \in Clients :
            (proc'[c] # proc[c] /\ proc'[c].op = "verify") => products' = products]_vars

\* a deactivated product has been signed again and is still deactivated
C18_Witness ==
    /\ Len(audit_log) = 3
    /\ audit_log[2] = <<"PRODUCT_DEACTIVATED", "SKU-42">>
    /\ audit_log[3] = <<"QR_WITH_LOGO_GENERATED", "SKU-42">>
    /\ "SKU-42" \in DOMAIN products
    /\ ~products["SKU-42"].is_active
    /\ products["SKU-42"].signed_token.iat > 0
    /\ faults = 0

\* C19 - Registry entries are never hard-deleted: a product id that has an
\* entry has one after every step of a sign, verify, activate, deactivate or
\* query request.
C19_NeverDeleted == [][DOMAIN products \subseteq DOMAIN products']_vars

\* an entry that was deactivated and activated again is still there
C19_Witness ==
    /\ Len(audit_log) = 3
    /\ audit_log[2] = <<"PRODUCT_DEACTIVATED", "SKU-42">>
    /\ audit_log[3] = <<"PRODUCT_ACTIVATED", "SKU-42">>
    /\ "SKU-42" \in DOMAIN products
    /\ products["SKU-42"].is_active

\* C20 - Re-issuance does not invalidate earlier tokens: a token issued for a
\* product id whose registry entry meanwhile holds another, newer token is
\* still answered valid:true, as long as the product is not deactivated.
C20_EarlierTokenStillValid ==
    \A c \in Clients :
        (/\ Answered(c)
         /\ proc[c].token \in issued \cup {PlainToken}
         /\ proc[c].token.data.id \in DOMAIN products
         /\ products[proc[c].token.data.id].signed_token # proc[c].token
         /\ products[proc[c].token.data.id].is_active)
        => resp[c].valid

\* the first of two tokens /sign-qr issued for one id has been verified after
\* the second was issued and stored
C20_Witness ==
    /\ Answered("c1") /\ resp["c1"].valid
    /\ proc["c1"].token \in issued
    /\ "SKU-42" \in DOMAIN products
    /\ products["SKU-42"].signed_token \in issued
    /\ proc["c1"].token.data.id = "SKU-42"
    /\ proc["c1"].token.iat < products["SKU-42"].signed_token.iat
    /\ products["SKU-42"].is_active
    /\ faults = 0

\* ------------------------------------------------------------------------
\* /verify-token under a database that fails again and again: one client, a
\* registry holding one product that is active or deactivated, and every
\* handler step that is pending taken in the end
\* ------------------------------------------------------------------------
MaxLiveLedger == 2    \* rows of table verifications in a run of SpecLive
MaxLiveAnswers == 2   \* answers valid:true in a run of SpecLive

\* the database is back: a later pool.query call may throw anew
Recover ==
    /\ faults > 0
    /\ faults' = 0
    /\ UNCHANGED <<now, env, products, verifications, audit_log,
                   proc, resp, issued, revoked, tally>>

InitLive ==
    /\ now = 0
    /\ PRIVATE_KEY = "priv-A"
    /\ PUBLIC_KEY \in {"pub-A", NoKey}
    /\ \E active \in BOOLEAN :
        /\ products = SetActive(InsertProduct(EmptyTable,
              [product_id |-> "SKU-42", name |-> "Widget", signed_token |-> OldToken]),
              "SKU-42", active)
        /\ audit_log = IF active THEN <<<<"QR_GENERATED", "SKU-42">>>>
                       ELSE <<<<"QR_GENERATED", "SKU-42">>,
                              <<"PRODUCT_DEACTIVATED", "SKU-42">>>>
        /\ revoked = [p \in ProductIds |->
              IF p = "SKU-42" /\ ~active THEN "deactivated" ELSE "none"]
    /\ verifications = <<>>
    /\ proc = [c \in Clients |-> Idle]
    /\ resp = [c \in Clients |-> NoResp]
    /\ issued = {}
    /\ faults = 0
    /\ tally = [succeeded |-> 0, unlogged |-> 0]
    /\ product_scans = <<>>
    /\ CanonUnused

NextLive ==
    \/ /\ tally.succeeded < MaxLiveAnswers
       /\ \E t \in VerifyInputs : VerifyStart("c1", t, MaxLiveLedger)
    \/ VerifyCheck("c1")
    \/ VerifyDeactivated("c1")
    \/ VerifyRisk("c1")
    \/ VerifySave("c1")
    \/ VerifyCount("c1")
    \/ VerifyCatch("c1")
    \/ Receive("c1")
    \/ Recover

\* each await of the handler settles: the query resolves or throws, and the
\* continuation runs
Settles ==
    /\ WF_vars(VerifyCheck("c1"))
    /\ WF_vars(VerifyDeactivated("c1"))
    /\ WF_vars(VerifyRisk("c1"))
    /\ WF_vars(VerifySave("c1"))
    /\ WF_vars(VerifyCount("c1"))
    /\ WF_vars(VerifyCatch("c1"))

SpecLive == InitLive /\ [][NextLive]_vars /\ Settles

\* the handler of client c is between its first await and its response
Pending(c) == proc[c].op = "verify" /\ proc[c].pc \notin {"idle", "done"}

\* C21: every /verify-token request receives a response in the end, and
\* exactly one: the response is written in the step that ends the handler,
\* none is written before or after it, and it stays as written until the
\* client has taken it
C21_OneResponse ==
    /\ \A c \in Clients : Pending(c) ~> proc[c].pc = "done"
    /\ [][\A c \in Clients :
            /\ Pending(c) => resp[c] = NoResp
            /\ (proc[c].pc # "done" /\ proc'[c].pc = "done")
                  => (resp[c] = NoResp /\ resp'[c].status \in {200, 400, 500})
            /\ (proc[c].pc = "done" /\ resp'[c] # resp[c])
                  => (proc'[c] = Idle /\ resp'[c] = NoResp)
            /\ (proc[c].pc # "done" /\ proc'[c].pc # "done") => resp'[c] = resp[c]]_vars

\* a request answered valid:true although its lookup, its ledger write and
\* its count query threw, while the ledger holds the row of an earlier request
C21_Witness ==
    /\ Answered("c1")
    /\ resp["c1"].valid
    /\ proc["c1"].lookupFailed
    /\ proc["c1"].wrote = 0
    /\ resp["c1"].scanCount = 0
    /\ verifications # <<>>

\* C22: every issued token is revocable: a deactivate request for the product
\* id of a token that /sign-qr has returned finds the product's row, it is
\* never answered with 'Product not found'
C22_IssuedIsRevocable ==
    [][\A id \in ProductIds :
          (Deactivate("c1", id, MaxLifeAudit) /\ \E t \in issued : t.data.id = id)
             => resp'["c1"].status # 404]_vars

\* an activate or deactivate request of client c for an id without a row
Unregistered(c) ==
    \E id \in ProductIds \ DOMAIN products : \E value \in BOOLEAN :
        SetActiveUpdate(c, id, value, MaxLifeAudit)

\* what such a request must leave alone: the registry, the audit log, and the
\* handler must be over, with no audit INSERT to come
NothingChanged(c) ==
    /\ products' = products
    /\ audit_log' = audit_log
    /\ proc'[c] = [pc |-> "done", op |-> "admin"]

\* C23 as stated: an activate or deactivate request for a product id that
\* has no registry entry is answered 404 'Product not found' and changes
\* nothing
C23_AlwaysNotFound ==
    [][Unregistered("c1") =>
          /\ resp'["c1"] = [status |-> 404, error |-> "Product not found"]
          /\ NothingChanged("c1")]_vars

\* C23: an activate or deactivate request for a product id that has no
\* registry entry changes nothing and is answered with an error: 404 'Product
\* not found' when the UPDATE resolves, 500 when it throws
C23_UnknownIdChangesNothing ==
    [][Unregistered("c1") =>
          /\ resp'["c1"].status = IF faults' = faults THEN 404 ELSE 500
          /\ resp'["c1"].error \in
                IF faults' = faults THEN {"Product not found"}
                ELSE {"Failed to activate product", "Failed to deactivate product"}
          /\ NothingChanged("c1")]_vars

\* a request for an unregistered id answered 404 while the registry holds a
\* deactivated product and the audit log holds records
C23_Witness ==
    /\ proc["c1"] = [pc |-> "done", op |-> "admin"]
    /\ resp["c1"].status = 404
    /\ \E p \in DOMAIN products : ~products[p].is_active
    /\ Len(audit_log) >= 2

\* the handler of client c leaves position pc in this step
Leaves(c, pc) == proc[c].pc = pc /\ proc'[c].pc # pc

\* C24: when the query of calculateRiskLevel throws, the function returns
\* 'low' and the handler goes on to the ledger write as after any other
\* score; from there the score is kept as it is, and the request is answered
\* 200, valid:true with that score, whatever the ledger holds for the product
C24_RiskFailureIsLow ==
    [][/\ Leaves("c1", "vt_risk") =>
             /\ proc'["c1"].pc = "vt_save"
             /\ faults' # faults => proc'["c1"].risk = "low"
       /\ Leaves("c1", "vt_save") =>
             /\ proc'["c1"].pc = "vt_count"
             /\ proc'["c1"].risk = proc["c1"].risk
       /\ Leaves("c1", "vt_count") =>
             /\ proc'["c1"].pc = "done"
             /\ resp'["c1"].status = 200
             /\ resp'["c1"].valid
             /\ resp'["c1"].risk = proc["c1"].risk]_vars

\* a scan answered valid:true with risk 'low' while the ledger holds more than
\* ten events of the last 24 hours for the product, the row of this scan not
\* counted: the score can only come from the catch block
C24_Witness ==
    /\ Answered("c1")
    /\ resp["c1"].valid
    /\ resp["c1"].risk = "low"
    /\ faults = 1
    /\ CountSince(verifications, proc["c1"].productId, now) > 11

\* rows written by the catch block of /verify-token
FailedAttempts ==
    {i \in DOMAIN verifications :
        verifications[i].product_id = "unknown" /\ ~verifications[i].is_valid}

\* C25: an attempt that fails the signature or expiry check is recorded under
\* the placeholder id 'unknown' and changes no scan count: no request whose
\* token has passed jwt.verify works under that id, and the scanCount of an
\* answer valid:true counts no row of a failed attempt
C25_FailuresStayApart ==
    \A c \in Clients :
        /\ (proc[c].op = "verify" /\ proc[c].verdict = "ok")
              => proc[c].productId # "unknown"
        /\ (Answered(c) /\ resp[c].valid)
              => resp[c].scanCount
                    <= Cardinality(RowsOf(proc[c].productId) \ FailedAttempts)

\* ------------------------------------------------------------------------
\* The token-hash scan tracker  (part_004): POST /verify-token counts the
\* rows of table product_scans that carry the hash of the token, then
\* inserts one more.  The columns ip_address and country play no part in
\* the count and are left out of the rows.
\* ------------------------------------------------------------------------
MaxTrackerScans == 3   \* rows of table product_scans in a run of SpecScan

\* lines 35-37: sha256 of the token, taken as free of collisions
hashToken(token) == [sha256 |-> token]

\* tokens of two products as POST /sign of part_004 makes them (lines 59-63,
\* no expiry), one of them with the signature of another key, and no token
OtherToken ==
    jwtSign([id |-> "SKU-7", name |-> "Widget"], "priv-A", 0, FALSE, 0)
ScanInputs ==
    {PlainToken, OtherToken, NoToken,
     [PlainToken EXCEPT !.sig = [key |-> "priv-B", over |-> Claims(PlainToken)]]}

\* SELECT COUNT(*) FROM product_scans WHERE token_hash = $1
CountScans(table, tokenHash) ==
    Cardinality({i \in DOMAIN table : table[i].token_hash = tokenHash})

\* lines 114-117
ScanRefused(c) ==
    /\ resp' = [resp EXCEPT ![c] =
          [status |-> 400, valid |-> FALSE, error |-> "Invalid token"]]
    /\ proc' = [proc EXCEPT ![c] = [pc |-> "done", op |-> "scan"]]

\* lines 74-91: body check, jwt.verify, hashToken
ScanStart(c, signedToken) ==
    /\ Free(c)
    /\ Len(product_scans) + InFlight("scan") < MaxTrackerScans
    /\ IF signedToken = NoToken
       THEN /\ resp' = [resp EXCEPT ![c] =
                  [status |-> 400, valid |-> FALSE, error |-> "No token provided"]]
            /\ proc' = [proc EXCEPT ![c] = [pc |-> "done", op |-> "reject"]]
       ELSE IF jwtVerify(signedToken, PUBLIC_KEY, now) # "ok"
       THEN ScanRefused(c)
       ELSE /\ proc' = [proc EXCEPT ![c] =
                  [pc |-> "ts_count", op |-> "scan", payload |-> signedToken.data,
                   tokenHash |-> hashToken(signedToken), scanCount |-> 0]]
            /\ resp' = resp
    /\ UNCHANGED <<now, PRIVATE_KEY, PUBLIC_KEY, canon, product_scans, products,
                   verifications, audit_log, issued, faults, revoked, tally>>

\* lines 93-99: Count previous scans
ScanCount(c) ==
    /\ At(c, "ts_count")
    /\ \E ok \in DbOutcomes :
        /\ Fault(ok)
        /\ IF ok
           THEN /\ proc' = [proc EXCEPT
                      ![c].scanCount = CountScans(product_scans, proc[c].tokenHash),
                      ![c].pc = "ts_insert"]
                /\ resp' = resp
           ELSE ScanRefused(c)
    /\ UNCHANGED <<now, PRIVATE_KEY, PUBLIC_KEY, canon, product_scans, products,
                   verifications, audit_log, issued, revoked, tally>>

\* lines 101-113: Insert new scan, then the response.  Field reported of a
\* row is no column: it keeps the scanCount of the response sent with the row
ScanInsert(c) ==
    /\ At(c, "ts_insert")
    /\ \E ok \in DbOutcomes :
        /\ Fault(ok)
        /\ IF ok
           THEN /\ product_scans' = Append(product_scans,
                      [token_hash |-> proc[c].tokenHash,
                       reported |-> proc[c].scanCount + 1])
                /\ resp' = [resp EXCEPT ![c] =
                      [status |-> 200, valid |-> TRUE, payload |-> proc[c].payload,
                       scanCount |-> proc[c].scanCount + 1,
                       cloneRisk |-> proc[c].scanCount >= 1]]
                /\ proc' = [proc EXCEPT ![c].pc = "done"]
           ELSE /\ ScanRefused(c)
                /\ UNCHANGED product_scans
    /\ UNCHANGED <<now, PRIVATE_KEY, PUBLIC_KEY, canon, products,
                   verifications, audit_log, issued, revoked, tally>>

InitScan ==
    /\ now = 0
    /\ PRIVATE_KEY = "priv-A"
    /\ PUBLIC_KEY \in {"pub-A", NoKey}
    /\ products = EmptyTable
    /\ verifications = <<>>
    /\ audit_log = <<>>
    /\ proc = [c \in Clients |-> Idle]
    /\ resp = [c \in Clients |-> NoResp]
    /\ issued = {}
    /\ faults = 0
    /\ revoked = [p \in ProductIds |-> "none"]
    /\ tally = [succeeded |-> 0, unlogged |-> 0]
    /\ product_scans = <<>>
    /\ CanonUnused

NextScan ==
    \/ \E c \in Clients : \E t \in ScanInputs : ScanStart(c, t)
    \/ \E c \in Clients : ScanCount(c)
    \/ \E c \in Clients : ScanInsert(c)
    \/ \E c \in Clients : Receive(c)

SpecScan == InitScan /\ [][NextScan]_vars

\* C26: under every interleaving of concurrent successful verifications of
\* one token, the scanCount values of the answers are pairwise distinct, and
\* at most one of the answers carries scanCount 1, that is cloneRisk false
C26_DistinctScanCounts ==
    \A i, j \in DOMAIN product_scans :
        (i # j /\ product_scans[i].token_hash = product_scans[j].token_hash)
           => product_scans[i].reported # product_scans[j].reported

\* ------------------------------------------------------------------------
\* Two sign requests for one product id that the registry has not seen, in
\* flight together: each has passed its key check and jwt.sign and is about
\* to send its SELECT (index.js 185-216, 272-303)
\* ------------------------------------------------------------------------
RaceId == "SKU-42"

\* the handler of a sign request at its first await
AtSelect(name, route) ==
    [pc |-> "sq_select", op |-> "sign", payload |-> [id |-> RaceId, name |-> name],
     signedToken |-> jwtSign([id |-> RaceId, name |-> name], "priv-A", 0, TRUE, TenYears),
     route |-> route]

InitRace ==
    /\ now = 0
    /\ PRIVATE_KEY = "priv-A"
    /\ PUBLIC_KEY = "pub-A"
    /\ products \in {EmptyTable,
                     InsertProduct(EmptyTable, [product_id |-> "SKU-7", name |-> "Widget",
                                                signed_token |-> OtherToken])}
    /\ verifications = <<>>
    /\ audit_log = <<>>
    /\ \E name \in {"Widget", "Gadget"} : \E r1, r2 \in Routes :
          proc = [c \in Clients |->
                    IF c = "c1" THEN AtSelect("Widget", r1) ELSE AtSelect(name, r2)]
    /\ resp = [c \in Clients |-> NoResp]
    /\ issued = {}
    /\ faults = 0
    /\ revoked = [p \in ProductIds |-> "none"]
    /\ tally = [succeeded |-> 0, unlogged |-> 0]
    /\ product_scans = <<>>
    /\ CanonUnused

NextRace ==
    \/ \E c \in Clients : SignQrSelect(c)
    \/ \E c \in Clients : SignQrInsert(c)
    \/ \E c \in Clients : SignQrUpdate(c)
    \/ \E c \in Clients : SignQrAudit(c)
    \/ \E c \in Clients : Receive(c)
    \/ Recover

SpecRace == InitRace /\ [][NextRace]_vars

\* both sign requests have been answered
BothSigned == \A c \in Clients : proc[c].op # "sign" \/ proc[c].pc = "done"

\* C27: under every interleaving of concurrent sign requests for one unseen
\* product id, the registry ends with exactly one entry for the id, and the
\* entry holds the data of one of the requests
C27_ExactlyOneEntry ==
    BothSigned =>
        /\ RaceId \in DOMAIN products
        /\ products[RaceId].signed_token \in issued
        /\ products[RaceId].name = products[RaceId].signed_token.data.name
        /\ products[RaceId].is_active

\* /verify has answered for signed data that nobody has touched since /sign
\* of this process sent it
OwnTokenVerified ==
    /\ answer.status = 200
    /\ "valid" \in DOMAIN answer
    /\ attested # NoWire
    /\ answer.payload = attested
    /\ answer.signer = PRIVATE_PEM

\* C28: key initialization of the canonical signing server ends with a
\* private and a public key that are both set and a pair, whatever the
\* environment variable and private.pem hold, and /verify answers valid:true
\* for every token that /sign of the same process has produced
C28_KeysFormAPair ==
    /\ PRIVATE_PEM \in DOMAIN PublicOf
    /\ PUBLIC_PEM = PublicOf[PRIVATE_PEM]
    /\ OwnTokenVerified => answer.valid

\* a token signed and verified under the generated pair, its payload holding
\* a meta object
C28_Witness ==
    /\ OwnTokenVerified
    /\ answer.valid
    /\ PRIVATE_PEM = "priv-G"
    /\ Keys(Get(attested, "meta")) # {}

====
